---------------------------- MODULE Spec2Model ----------------------------
(***************************************************************************)
(* The todo service of main.py: five request handlers over one table,      *)
(* each request running in its own SQLAlchemy session (get_db).  The       *)
(* database is PostgreSQL at READ COMMITTED: every statement sees the rows  *)
(* committed so far.  The UPDATE or DELETE that db.commit() flushes locks   *)
(* its row until the COMMIT, so the two are one step for every other        *)
(* request.  The INSERT of a create takes its id from the sequence at once  *)
(* and for good, while its row appears only at the COMMIT: these are two    *)
(* steps.                                                                  *)
(***************************************************************************)
EXTENDS Naturals, FiniteSets

\* Number of requests the service receives in one behaviour.
MaxReq == 2

Reqs == 1..MaxReq

\* Path ids a client may send; the sequence hands out ids from the same range.
TodoIds == 1..MaxReq

\* Python's None, and a JSON field that is not sent.
None == "None"
Absent == "Absent"

Titles == {"A", "B"}
Descriptions == {"B"}

\* Request bodies as they arrive on the wire, a title always among them
\* (FastAPI answers a body without one before the handler runs).
JsonBodies ==
    [title : Titles,
     description : Descriptions \cup {Absent},
     completed : {"true", "false", Absent}]

Ops == {"create", "list", "get", "update", "delete"}

\* A run of creates and reads only: MaxReq creates and one more request.
ListReqs == 1..(MaxReq + 1)
ListOps == {"create", "list", "get"}

VARIABLES
    boot,     \* rows todos_table held when the process started
    store,    \* rows of todos_table
    nextId,   \* next value of the id sequence of todos_table
    req,      \* per request: position in its handler, inputs, session, response
    dirty     \* ids updated or deleted after a create responded with them

vars == <<boot, store, nextId, req, dirty>>

-----------------------------------------------------------------------------
\* class TodoCreate: title required, description defaults to None, completed to False.
TodoCreate(json) ==
    [title |-> json.title,
     description |-> IF json.description = Absent THEN None ELSE json.description,
     completed |-> json.completed = "true"]

\* class TodoModel: one row of todos_table.
TodoModel(id, title, description, completed) ==
    [id |-> id, title |-> title, description |-> description, completed |-> completed]

\* What query(...).first() yields when no row matches.
NoRow == TodoModel(0, None, None, FALSE)

NoBody == [title |-> None, description |-> None, completed |-> FALSE]

\* db.query(TodoModel).filter(TodoModel.id == todo_id).first()
First(rows, todo_id) ==
    IF \E x \in rows : x.id = todo_id
    THEN CHOOSE x \in rows : x.id = todo_id
    ELSE NoRow

\* A handler that takes whatever first() gave it for a row.
NotFoundSkipped(todo) == FALSE

\* `if not todo`
NotFound(todo) == todo = NoRow

\* Columns declared without nullable=False.
NotNullIgnored(row) == TRUE

\* nullable=False on title and description.
NotNull(row) == row.title # None /\ row.description # None

\* The columns an UPDATE sets: the attributes whose value differs from the loaded one.
Changed(todo, body) ==
    {c \in {"title", "description", "completed"} : todo[c] # body[c]}

\* The row after UPDATE ... SET <changed columns> WHERE id = ...
Updated(cur, todo, body) ==
    TodoModel(cur.id,
              IF "title" \in Changed(todo, body) THEN body.title ELSE cur.title,
              IF "description" \in Changed(todo, body)
                  THEN body.description ELSE cur.description,
              IF "completed" \in Changed(todo, body)
                  THEN body.completed ELSE cur.completed)

\* A DELETE without its WHERE clause, and a delete that is never flushed.
DeleteAll(rows, todo_id) == {}
DeleteKept(rows, todo_id) == rows

\* DELETE FROM todos_table WHERE id = ...
Deleted(rows, todo_id) == {x \in rows : x.id # todo_id}

\* The id the sequence gives an INSERT.
NewId(rows, seq) == seq

\* A handler that returns the object without db.refresh.
Unrefreshed(rows, todo) == todo

\* db.refresh(obj): the object's row as stored now, NoRow when it is gone.
Refreshed(rows, todo) == First(rows, todo.id)

\* A list query with a stray filter on completed.
AllCompleted(rows) == {x \in rows : x.completed}

\* db.query(TodoModel).all()
All(rows) == rows

\* The record an update or a create is asked to store under id.
Asked(id, body) == TodoModel(id, body.title, body.description, body.completed)

\* After a commit the session expires the object: only its identity is kept.
Expired(todo) == TodoModel(todo.id, None, None, FALSE)

\* A dependency whose finally clause does not close.
Leak(session) == session

\* db.close()
Close(session) == "closed"

Idle ==
    [pc |-> "idle", op |-> "none", todo_id |-> 0, body |-> NoBody,
     session |-> "none", closes |-> 0, todo |-> NoRow,
     status |-> 0, out |-> {}, err |-> "", wrote |-> FALSE]

\* The request leaves its handler, by return or by HTTPException: status, body and
\* error text are fixed; the session stays open until get_db is resumed.
Respond(q, status, out, err) ==
    [q EXCEPT !.pc = "close", !.status = status, !.out = out, !.err = err,
              !.todo = NoRow, !.body = NoBody]

\* Ids a create has already returned to its client.
Returned ==
    {x.id : x \in UNION {req[r].out : r \in
        {s \in Reqs : req[s].op = "create" /\ req[s].status = 200}}}

\* create_all leaves an existing table as it is: the service starts on an empty
\* table or on the rows of an earlier run.
InitStores == {{}, {TodoModel(1, "A", "B", FALSE)}}

Init ==
    /\ boot \in InitStores
    /\ store = boot
    /\ nextId = Cardinality(boot) + 1
    /\ req = [r \in Reqs |-> Idle]
    /\ dirty = {}

-----------------------------------------------------------------------------
\* A request for one of ops arrives; get_db opens a session and yields it to the
\* handler.
Arrive(r, ops) ==
    /\ req[r].pc = "idle"
    /\ \A s \in DOMAIN req : s < r => req[s].pc # "idle"
    /\ \E op \in ops, id \in TodoIds :
        /\ op \in {"create", "list"} => id = 1
        /\ req' = [req EXCEPT ![r] =
                [Idle EXCEPT !.op = op, !.session = "open",
                    !.pc = IF op = "create" THEN "commit" ELSE "query",
                    !.todo_id = IF op \in {"create", "list"} THEN 0 ELSE id]]
    /\ UNCHANGED <<boot, store, nextId, dirty>>

get_db(r) == Arrive(r, Ops)

\* get_db when the clients send creates and reads only.
get_db_reads(r) == Arrive(r, ListOps)

\* create_todo up to the INSERT that db.commit flushes: the sequence hands out
\* the id, whatever becomes of the transaction; the except clause on failure.
create_todo(r) ==
    /\ req[r].pc = "commit"
    /\ req[r].op = "create"
    /\ \E up \in BOOLEAN :
        IF ~up
        THEN /\ req' = [req EXCEPT ![r] = Respond(req[r], 500, {}, "OperationalError")]
             /\ UNCHANGED nextId
        ELSE \E json \in JsonBodies :
            LET q == [req[r] EXCEPT !.body = TodoCreate(json)]
                db_todo == Asked(NewId(store, nextId), q.body)
            IN  /\ nextId' = nextId + 1
                /\ req' = [req EXCEPT ![r] =
                        IF ~NotNull(db_todo) \/ (\E x \in store : x.id = db_todo.id)
                        THEN Respond(q, 500, {}, "IntegrityError")
                        ELSE [q EXCEPT !.pc = "inserted", !.todo = Expired(db_todo)]]
    /\ UNCHANGED <<boot, store, dirty>>

\* The COMMIT of create_todo's db.commit: the inserted row becomes visible, or the
\* COMMIT fails, the except clause rolls back and the id stays consumed.
create_todo_commit(r) ==
    /\ req[r].pc = "inserted"
    /\ \E up \in BOOLEAN :
        LET q == req[r]
            db_todo == Asked(q.todo.id, q.body)
        IN  IF ~up
            THEN /\ req' = [req EXCEPT ![r] = Respond(q, 500, {}, "OperationalError")]
                 /\ UNCHANGED store
            ELSE /\ store' = store \cup {db_todo}
                 /\ req' = [req EXCEPT ![r] =
                        [q EXCEPT !.pc = "refresh", !.body = NoBody, !.wrote = TRUE]]
    /\ UNCHANGED <<boot, nextId, dirty>>

\* db.refresh(...) and the return of create_todo and update_todo.
refresh(r) ==
    /\ req[r].pc = "refresh"
    /\ \E up \in BOOLEAN :
        LET q == req[r]
            row == Refreshed(store, q.todo)
        IN  req' = [req EXCEPT ![r] =
                IF ~up THEN Respond(q, 500, {}, "OperationalError")
                ELSE IF row = NoRow THEN Respond(q, 500, {}, "InvalidRequestError")
                ELSE Respond(q, 200, {row}, "")]
    /\ UNCHANGED <<boot, store, nextId, dirty>>

\* get_todos
get_todos(r) ==
    /\ req[r].pc = "query"
    /\ req[r].op = "list"
    /\ \E up \in BOOLEAN :
        req' = [req EXCEPT ![r] =
            IF ~up THEN Respond(req[r], 500, {}, "OperationalError")
            ELSE Respond(req[r], 200, All(store), "")]
    /\ UNCHANGED <<boot, store, nextId, dirty>>

\* get_todo
get_todo(r) ==
    /\ req[r].pc = "query"
    /\ req[r].op = "get"
    /\ \E up \in BOOLEAN :
        LET q == req[r]
            todo == First(store, q.todo_id)
        IN  req' = [req EXCEPT ![r] =
                IF ~up THEN Respond(q, 500, {}, "OperationalError")
                ELSE IF NotFound(todo) THEN Respond(q, 404, {}, "Todo not found")
                ELSE Respond(q, 200, {todo}, "")]
    /\ UNCHANGED <<boot, store, nextId, dirty>>

\* The fetch of update_todo and delete_todo, up to the 404.
fetch(r) ==
    /\ req[r].pc = "query"
    /\ req[r].op \in {"update", "delete"}
    /\ \E up \in BOOLEAN :
        LET q == req[r]
            todo == First(store, q.todo_id)
        IN  req' = [req EXCEPT ![r] =
                IF ~up THEN Respond(q, 500, {}, "OperationalError")
                ELSE IF NotFound(todo) THEN Respond(q, 404, {}, "Todo not found")
                ELSE [q EXCEPT !.pc = "commit", !.todo = todo]]
    /\ UNCHANGED <<boot, store, nextId, dirty>>

\* update_todo from the assignments to db.commit; the except clause on failure.
update_todo(r) ==
    /\ req[r].pc = "commit"
    /\ req[r].op = "update"
    /\ \E up \in BOOLEAN :
        IF ~up
        THEN /\ req' = [req EXCEPT ![r] = Respond(req[r], 500, {}, "OperationalError")]
             /\ UNCHANGED <<store, dirty>>
        ELSE \E json \in JsonBodies :
            LET q == [req[r] EXCEPT !.body = TodoCreate(json)]
                cur == First(store, q.todo.id)
                new == Updated(cur, q.todo, q.body)
            IN  IF Changed(q.todo, q.body) = {}
                THEN /\ req' = [req EXCEPT ![r] =
                            [q EXCEPT !.pc = "refresh", !.todo = Expired(q.todo)]]
                     /\ UNCHANGED <<store, dirty>>
                ELSE IF cur = NoRow
                THEN /\ req' = [req EXCEPT ![r] = Respond(q, 500, {}, "StaleDataError")]
                     /\ UNCHANGED <<store, dirty>>
                ELSE IF ~NotNull(new)
                THEN /\ req' = [req EXCEPT ![r] = Respond(q, 500, {}, "IntegrityError")]
                     /\ UNCHANGED <<store, dirty>>
                ELSE /\ store' = (store \ {cur}) \cup {new}
                     /\ dirty' = IF new # cur
                                 THEN dirty \cup ({cur.id} \cap Returned) ELSE dirty
                     /\ req' = [req EXCEPT ![r] =
                            [q EXCEPT !.pc = "refresh", !.todo = Expired(q.todo),
                                      !.wrote = (new # cur)]]
    /\ UNCHANGED <<boot, nextId>>

\* delete_todo from db.delete to the return; the except clause on failure.
delete_todo(r) ==
    /\ req[r].pc = "commit"
    /\ req[r].op = "delete"
    /\ \E up \in BOOLEAN :
        LET q == req[r]
            rows == Deleted(store, q.todo.id)
        IN  IF ~up
            THEN /\ req' = [req EXCEPT ![r] = Respond(q, 500, {}, "OperationalError")]
                 /\ UNCHANGED <<store, dirty>>
            ELSE /\ store' = rows
                 /\ dirty' = IF rows # store
                             THEN dirty \cup ({q.todo.id} \cap Returned) ELSE dirty
                 /\ req' = [req EXCEPT ![r] =
                        [Respond(q, 200, {}, "") EXCEPT !.wrote = (rows # store)]]
    /\ UNCHANGED <<boot, nextId>>

\* The finally clause of get_db, run once the handler has left.
get_db_close(r) ==
    /\ req[r].pc = "close"
    /\ req' = [req EXCEPT ![r] =
            [req[r] EXCEPT !.pc = "done", !.session = Close(req[r].session),
                           !.closes = @ + 1]]
    /\ UNCHANGED <<boot, store, nextId, dirty>>

Next ==
    \E r \in Reqs :
        \/ get_db(r)
        \/ create_todo(r)
        \/ create_todo_commit(r)
        \/ refresh(r)
        \/ get_todos(r)
        \/ get_todo(r)
        \/ fetch(r)
        \/ update_todo(r)
        \/ delete_todo(r)
        \/ get_db_close(r)

Spec == Init /\ [][Next]_vars

\* The service started on an empty table and sent creates and reads only.
ListInit ==
    /\ boot = {}
    /\ store = boot
    /\ nextId = Cardinality(boot) + 1
    /\ req = [r \in ListReqs |-> Idle]
    /\ dirty = {}

ListNext ==
    \E r \in ListReqs :
        \/ get_db_reads(r)
        \/ create_todo(r)
        \/ create_todo_commit(r)
        \/ refresh(r)
        \/ get_todos(r)
        \/ get_todo(r)
        \/ get_db_close(r)

ListSpec == ListInit /\ [][ListNext]_vars

\* The server runs every handler it has started to its end, and resumes get_db
\* after it.
FairSpec == Spec /\ \A r \in Reqs : WF_vars(refresh(r) \/ get_todos(r) \/ get_todo(r)
                \/ fetch(r) \/ create_todo(r) \/ create_todo_commit(r)
                \/ update_todo(r) \/ delete_todo(r) \/ get_db_close(r))

-----------------------------------------------------------------------------
Ids(rows) == {x.id : x \in rows}

\* get_db r takes a step of its handler.
Steps(r) == req'[r] # req[r]

\* The database answered the statement of r's step.
Answered(r) == req'[r].err # "OperationalError"

\* C1: a get-by-id, update or delete whose fetch finds no row with its id answers
\* 404, and neither that step nor any later step of the request changes storage.
C1_NotFoundNoEffect ==
    [][\A r \in Reqs :
        /\ ( /\ req[r].pc = "query"
             /\ req[r].op \in {"get", "update", "delete"}
             /\ Steps(r)
             /\ Answered(r)
             /\ req[r].todo_id \notin Ids(store) )
           => /\ req'[r].status = 404
              /\ req'[r].pc = "close"
              /\ ~req'[r].wrote
              /\ store' = store
        /\ (req[r].status = 404 /\ Steps(r)) => store' = store]_vars

C1_Witness ==
    /\ boot # {}
    /\ store = boot
    /\ \E r, s \in Reqs :
        /\ req[r].op = "update" /\ req[r].pc = "done" /\ req[r].status = 404
        /\ req[s].op = "delete" /\ req[s].pc = "done" /\ req[s].status = 404

\* C2: a create, update or delete that ends with a 500 has changed no stored row.
C2_RolledBack ==
    \A r \in Reqs :
        (req[r].op \in {"create", "update", "delete"} /\ req[r].status = 500)
            => ~req[r].wrote

\* C3: every session a request opened is closed in the end, exactly once, whatever
\* the status; a request that is over holds no open session.
C3_SessionsClosed ==
    /\ \A r \in Reqs : (req[r].session = "open") ~> (req[r].session = "closed")
    /\ [](\A r \in Reqs :
            /\ req[r].closes <= 1
            /\ req[r].session = "closed" => req[r].closes = 1
            /\ req[r].pc = "done" => req[r].session = "closed"
            /\ req[r].pc \notin {"idle", "done"} => req[r].session = "open")

C3_Witness ==
    \E r, s \in Reqs :
        /\ req[r].pc = "done" /\ req[r].status = 404
        /\ req[r].session = "closed" /\ req[r].closes = 1
        /\ req[s].pc = "done" /\ req[s].status = 500
        /\ req[s].session = "closed" /\ req[s].closes = 1

\* C4: stored rows have pairwise distinct ids and no null title or description; an
\* id the sequence has handed out is below the sequence and is handed out once;
\* and no step changes the id of a row: a step adds at most the id its create was
\* handed, removes at most the id its delete names, and an update leaves the set
\* of stored ids as it is.
C4_StorageInvariant ==
    /\ [](/\ \A x, y \in store : x.id = y.id => x = y
          /\ \A x \in store : x.title # None /\ x.description # None /\ x.id < nextId
          /\ \A r \in Reqs : req[r].pc = "inserted" =>
                /\ req[r].todo.id < nextId
                /\ req[r].todo.id \notin Ids(store)
                /\ \A s \in Reqs \ {r} :
                        req[s].pc = "inserted" => req[s].todo.id # req[r].todo.id)
    /\ [][\A r \in Reqs : (Steps(r) /\ store' # store) =>
            /\ Ids(store') \ Ids(store) \subseteq
                    (IF req[r].pc = "inserted" THEN {req[r].todo.id} ELSE {})
            /\ Ids(store) \ Ids(store') \subseteq
                    (IF req[r].op = "delete" THEN {req[r].todo_id} ELSE {})
            /\ req[r].op = "update" => Ids(store') = Ids(store)]_vars

C4_Witness ==
    /\ Cardinality(store) = 2
    /\ \E r \in Reqs : req[r].op = "create" /\ req[r].wrote /\ req[r].status = 200
    /\ \E r \in Reqs : req[r].op = "update" /\ req[r].wrote /\ req[r].status = 200

\* C5: an update that found its row and whose statements the database answered
\* ends with a 200 carrying exactly the fields of its body, an omitted description
\* and completed at their defaults.
C5_FullReplace ==
    [][\A r \in Reqs :
        ( /\ Steps(r)
          /\ req[r].op = "update"
          /\ req[r].pc \in {"commit", "refresh"}
          /\ req'[r].pc = "close"
          /\ Answered(r) )
        => /\ req'[r].status = 200
           /\ req'[r].out = {Asked(req[r].todo_id, req[r].body)}]_vars

\* C6: a get-by-id on an id that a create has returned, with no update or delete of
\* that id since, answers 200 with the very record the create returned.
C6_CreateThenGet ==
    [][\A g \in Reqs :
        ( /\ req[g].pc = "query" /\ req[g].op = "get"
          /\ Steps(g)
          /\ Answered(g)
          /\ req[g].todo_id \notin dirty )
        => \A c \in Reqs :
            ( /\ req[c].op = "create" /\ req[c].status = 200
              /\ req[g].todo_id \in Ids(req[c].out) )
            => /\ req'[g].status = 200
               /\ req'[g].out = req[c].out]_vars

C6_Witness ==
    \E g, c \in Reqs :
        /\ req[c].op = "create" /\ req[c].status = 200
        /\ req[g].op = "get" /\ req[g].status = 200
        /\ req[g].out = req[c].out
        /\ \E x \in req[g].out : x.id = req[g].todo_id /\ x.id \notin dirty

\* Every request received so far is a create that has answered 200, or a read.
OnlyCreates(l) ==
    \A s \in ListReqs \ {l} :
        \/ req[s].pc = "idle"
        \/ req[s].op \in {"get", "list"}
        \/ req[s].op = "create" /\ req[s].status = 200

Created(l) == {s \in ListReqs \ {l} : req[s].op = "create"}

\* C7: on a table that started empty and has seen only successful creates, N of
\* them, a list the database answers returns exactly N records, those the creates
\* returned (none when N = 0).
C7_ListAll ==
    [][\A l \in ListReqs :
        ( /\ req[l].pc = "query" /\ req[l].op = "list"
          /\ Steps(l)
          /\ Answered(l)
          /\ boot = {}
          /\ OnlyCreates(l) )
        => /\ req'[l].status = 200
           /\ req'[l].out = UNION {req[c].out : c \in Created(l)}
           /\ Cardinality(req'[l].out) = Cardinality(Created(l))]_vars

C7_Witness ==
    /\ boot = {}
    /\ \E l \in ListReqs :
        /\ req[l].op = "list" /\ req[l].status = 200
        /\ Cardinality(Created(l)) = MaxReq
        /\ \A c \in Created(l) :
                req[c].status = 200 /\ req[c].pc = "done" /\ req[c].out \subseteq req[l].out
        /\ Cardinality(req[l].out) = MaxReq

\* C8: a delete that found its row and whose statement the database answered ends
\* with a 200 and the row gone; once a delete of an id has answered 200 the id is
\* not stored again, and every get-by-id on it that the database answers is a 404.
C8_DeleteRemoves ==
    [][\A r \in Reqs :
        /\ ( /\ req[r].pc = "commit" /\ req[r].op = "delete"
             /\ Steps(r)
             /\ Answered(r) )
           => /\ req'[r].status = 200
              /\ req[r].todo_id \notin Ids(store')
        /\ (req[r].op = "delete" /\ req[r].status = 200)
           => /\ req[r].todo_id \notin Ids(store')
              /\ \A g \in Reqs :
                    ( /\ req[g].pc = "query" /\ req[g].op = "get"
                      /\ req[g].todo_id = req[r].todo_id
                      /\ Steps(g)
                      /\ Answered(g) )
                    => req'[g].status = 404]_vars

C8_Witness ==
    \E d, g \in Reqs :
        /\ req[d].op = "delete" /\ req[d].status = 200 /\ req[d].wrote
        /\ req[g].op = "get" /\ req[g].status = 404
        /\ req[g].todo_id = req[d].todo_id
        /\ req[g].todo_id \in Ids(boot)

\* C9: when an update commits, the stored row is the record of its body, whatever
\* another request on the same id committed since its fetch; and an update that
\* commits after a delete of its id has committed leaves no row with that id.
C9_LastWriteWins ==
    [][\A r \in Reqs :
        ( /\ Steps(r)
          /\ req[r].op = "update" /\ req[r].pc = "commit"
          /\ Answered(r) )
        => /\ req'[r].pc = "refresh"
              => First(store', req[r].todo_id)
                    = Asked(req[r].todo_id, req'[r].body)
           /\ req[r].todo_id \notin Ids(store)
              => req[r].todo_id \notin Ids(store')]_vars

\* C10: a get-by-id or a list changes no stored row; an update or delete of an id
\* leaves the rows of every other id as they are; a create keeps every stored row.
C10_Frame ==
    [][\A r \in Reqs :
        Steps(r) =>
            /\ req'[r].op \in {"get", "list"} => store' = store
            /\ req'[r].op \in {"update", "delete"} =>
                {x \in store' : x.id # req'[r].todo_id}
                    = {x \in store : x.id # req'[r].todo_id}
            /\ req'[r].op = "create" => store \subseteq store']_vars

C10_Witness ==
    /\ \E d \in Reqs :
        /\ req[d].op = "delete" /\ req[d].status = 200 /\ req[d].wrote
        /\ \E x \in store : x.id # req[d].todo_id
    /\ \E c \in Reqs : req[c].op = "create" /\ req[c].wrote

=============================================================================
